---- MODULE Spec2Model ----
(***************************************************************************)
(* State-machine model of ucsmsdk/ucssession.py: the UcsSession object,    *)
(* the process-wide tx_lock, the refresh Timer, and the freeze/unfreeze    *)
(* round trip.  Threads run the session's methods; every post_elem is      *)
(* split at the points where other threads can interleave: waiting for     *)
(* tx_lock, the request on the wire, and the caller's code after           *)
(* post_elem returned or raised.                                           *)
(*                                                                         *)
(* The module is Python 2 code (implicit relative imports in freeze and    *)
(* unfreeze), so comparisons between str and int follow Python 2.          *)
(***************************************************************************)
EXTENDS Integers, Sequences, FiniteSets, TLC

\* ---------------------------------------------------------------- bounds
NumThreads == 2
MaxOps == 2
MaxSeqOps == 3
MaxCookie == 3
MaxSessions == 3
\* the refresh periods a server may report: 1..MaxPeriod and LongPeriod
MaxPeriod == 130
LongPeriod == 500
\* the refresh period of the server where it is not varied
ServerPeriod == 600

Threads == 1..NumThreads
Sessions == 1..MaxSessions

VARIABLES
    sess,       \* sess[s]: the fields of UcsSession object s
    th,         \* th[t]: where thread t is, with the locals of its frames
    tx_lock,    \* the module-level threading.Lock
    file,       \* the attribute bag freeze wrote, FileAbsent before
    srv,        \* the server: cookies issued, and those it still accepts
    ops,        \* number of operations callers have started
    env         \* the run: its threads, the calls its callers make, whether
                \* the server redirects the driver, and whether it may leave
                \* outVersion out of an aaaLogin response

vars == <<sess, th, tx_lock, file, srv, ops, env>>

\* ------------------------------------------------------- python values
\* A Python value is its type and its str() rendering; n is its number
\* when it is one.
Val(ty, v, n) == [ty |-> ty, v |-> v, n |-> n]
PyNone == Val("none", "None", 0)
Str(x) == Val("str", x, 0)
NumStr(x, n) == Val("str", x, n)
NoAttr == Val("absent", "", 0)
IsNone(x) == x.ty = "none"

\* str(x)
PyStr(x) == Val("str", x.v, x.n)
\* int(x) of a number or a numeric string
PyInt(x) == Val("int", x.v, x.n)
\* UcsVersion(x)
UcsVersion(x) == Val("ver", x.v, 0)
\* x.split(',') of the privilege string
PrivStr == "admin,read-only"
PrivSplit(x) == Val("list", IF x.v = PrivStr THEN "['admin', 'read-only']"
                            ELSE "['" \o x.v \o "']", 0)
\* str_to_bool(x)
StrToBool(x) == x.v \in {"True", "true", "yes", "1", "t", "y"}
\* str(b) of a bool
BoolStr(b) == Str(IF b THEN "True" ELSE "False")

\* x > 60 as Python 2 orders it: None below every number, str above
Gt60(x) ==
    CASE x.ty = "int"  -> x.n > 60
      [] x.ty = "none" -> FALSE
      [] OTHER         -> TRUE

CookieOf(n) == Val("str", "c" \o ToString(n), n)

\* what the server's responses carry
\* outRefreshPeriod, an XML attribute: the text of the number of seconds
OutRefreshPeriod == NumStr(ToString(env.period), env.period)
OutName == Str("ucs-a")
OutSessionId == Str("web_1")
OutVersionStr == Str("2.2(1b)")
OutDomains == Str("org-root")
OutChannel == Str("noencssl")
OutEvtChannel == Str("evt")
Now == Str("asctime")
Ip == Str("10.0.0.1")
Username == Str("admin")
Password == Str("secret")
Uri0 == Str("https://10.0.0.1:443")
UriRedirect == Str("https://10.0.0.2:443")

\* ------------------------------------------------------------- session
\* UcsSession.__init__
NewSession(ip, username, password, proxy) ==
    [alive |-> TRUE,
     ip |-> ip, username |-> username, password |-> password, proxy |-> proxy,
     uri |-> Uri0, ucs |-> ip,
     name |-> PyNone, cookie |-> PyNone, session_id |-> PyNone,
     version |-> PyNone, refresh_period |-> PyNone, priv |-> PyNone,
     domains |-> PyNone, channel |-> PyNone, evt_channel |-> PyNone,
     last_update_time |-> PyNone,
     refresh_timer |-> "None", pending |-> 0, interval |-> 0,
     force |-> FALSE, auto_refresh |-> FALSE,
     dump_xml |-> FALSE, redirect |-> FALSE,
     \* history: the cookies a refresh of this session has replaced, and
     \* the number of aaaLogin requests the session has sent
     superseded |-> {}, nlogin |-> 0]

NoSession == [NewSession(PyNone, PyNone, PyNone, PyNone) EXCEPT !.alive = FALSE]

\* a __clear that also puts the uri back to the constructed one, a
\* faulty variant
ClearResetsUri(s) ==
    [s EXCEPT !.name = PyNone, !.cookie = PyNone, !.session_id = PyNone,
              !.version = PyNone, !.refresh_period = PyNone, !.priv = PyNone,
              !.domains = PyNone, !.channel = PyNone, !.evt_channel = PyNone,
              !.last_update_time = Now, !.uri = Uri0]

\* UcsSession.__clear
Clear(s) ==
    [s EXCEPT !.name = PyNone, !.cookie = PyNone, !.session_id = PyNone,
              !.version = PyNone, !.refresh_period = PyNone, !.priv = PyNone,
              !.domains = PyNone, !.channel = PyNone, !.evt_channel = PyNone,
              !.last_update_time = Now]

\* UcsSession.__update, from an aaaLogin response carrying cookie number c;
\* hasVersion tells whether the response carries outVersion
Update(s, c, hasVersion) ==
    [s EXCEPT !.name = OutName, !.cookie = CookieOf(c),
              !.session_id = OutSessionId,
              !.version = UcsVersion(IF hasVersion THEN OutVersionStr ELSE PyNone),
              !.refresh_period = OutRefreshPeriod, !.priv = Str(PrivStr),
              !.domains = OutDomains, !.channel = OutChannel,
              !.evt_channel = OutEvtChannel, !.last_update_time = Now]

\* UcsSession.__start_refresh_timer: a new Timer replaces the one the
\* session refers to; a Timer still armed stays pending, unreferenced
StartRefreshTimer(s) ==
    [s EXCEPT !.interval = IF Gt60(s.refresh_period)
                           THEN s.refresh_period.n - 60 ELSE 60,
              !.refresh_timer = "armed",
              !.pending = @ + 1]

\* Timer.cancel() on the Timer the session refers to
CancelTimer(s) ==
    IF s.refresh_timer = "armed"
    THEN [s EXCEPT !.refresh_timer = "dead", !.pending = @ - 1]
    ELSE s

\* UcsSession.__stop_refresh_timer
StopRefreshTimer(s) ==
    IF s.refresh_timer # "None"
    THEN [CancelTimer(s) EXCEPT !.refresh_timer = "None"]
    ELSE s

\* UcsSession._update_cookie
UpdateCookie(s, code, c) ==
    IF code # "0" THEN s ELSE [s EXCEPT !.cookie = CookieOf(c)]

\* UcsSession._is_stale_cookie
IsStaleCookie(s, elem) ==
    /\ elem.cookie.ty # "absent"
    /\ elem.cookie # Str("")
    /\ elem.cookie # s.cookie

\* -------------------------------------------------------------- threads
NoElem == [tag |-> "none", cookie |-> NoAttr]
IdleThread ==
    [op |-> "idle", self |-> 0, ctl |-> "idle",
     site |-> "none", lctx |-> "none", vctx |-> "none",
     elem |-> NoElem, resp |-> "none", exc |-> "none",
     out_cookie |-> 0, out_version |-> FALSE,
     auto_refresh |-> FALSE, force |-> FALSE, auto_relogin |-> FALSE,
     validate |-> FALSE, ret |-> "none",
     \* history: the operation has sent an aaaLogin
     sentLogin |-> FALSE]

\* A machine m is the session a thread works on and the thread itself:
\* m.s is the UcsSession (self), m.t the thread's locals.

\* the top-level method returns r, or raises r: its frames are gone, and
\* the thread keeps the call, its result and its last exchange
Finish(m, r) ==
    [m EXCEPT !.t = [IdleThread EXCEPT !.ctl = "done", !.ret = r,
                                       !.op = m.t.op, !.self = m.t.self,
                                       !.force = m.t.force,
                                       !.validate = m.t.validate,
                                       !.site = m.t.site, !.resp = m.t.resp,
                                       !.lctx = m.t.lctx, !.elem = m.t.elem,
                                       !.sentLogin = m.t.sentLogin]]

\* the running method calls self.post_elem(elem) from the call site `site`
Call(m, site, tag, cookie) ==
    [m EXCEPT !.t.ctl = "call", !.t.site = site,
              !.t.elem = [tag |-> tag, cookie |-> cookie]]

\* _login returned True: to the caller of login or _refresh, or to
\* unfreeze, which returns the handle
FinishLogin(m) == Finish(m, IF m.t.op = "unfreeze" THEN "handle" ELSE "True")

\* a _login that never sends its aaaLogin, a faulty variant
LoginAfterValidateSkips(m, valid) == FinishLogin(m)

\* _login, from the return of __validate_connection to the aaaLogin call
LoginAfterValidate(m, valid) ==
    IF valid THEN FinishLogin(m)
    ELSE Call(m, "login", "aaaLogin", NoAttr)

\* an unfreeze that takes every restored cookie for live, a faulty variant
UnfreezeAfterValidateTrusts(m, valid) ==
    IF m.t.auto_refresh
    THEN Finish([m EXCEPT !.s = StartRefreshTimer(m.s)], "handle")
    ELSE Finish(m, "handle")

\* unfreeze, from the return of __validate_connection
UnfreezeAfterValidate(m, valid) ==
    IF ~valid THEN Finish(m, "ValueError")
    ELSE IF m.t.auto_refresh
         THEN Finish([m EXCEPT !.s = StartRefreshTimer(m.s)], "handle")
         ELSE Finish(m, "handle")

\* __validate_connection returns `valid` to _login or to unfreeze
ValidateReturn(m, valid) ==
    IF m.t.vctx = "login" THEN LoginAfterValidate(m, valid)
    ELSE UnfreezeAfterValidate(m, valid)

\* _login, the end: arm the timer when the auto_refresh argument is set
LoginEnd(m) ==
    IF m.t.auto_refresh
    THEN FinishLogin([m EXCEPT !.s = StartRefreshTimer(m.s)])
    ELSE FinishLogin(m)

\* _update_domain_name_and_ip, up to its post_elem
UpdateDomainBegin(m) == Call(m, "domain", "configResolveDn", m.s.cookie)

\* _update_version, up to its post_elem
UpdateVersionBegin(m) ==
    IF m.t.out_version THEN UpdateDomainBegin(m)
    ELSE Call(m, "version", "configResolveDn", m.s.cookie)

\* __is_ucsm returned is_ucs to _login
IsUcsmReturn(m, is_ucs) ==
    IF ~is_ucs THEN Finish(m, "UcsLoginError")
    ELSE UpdateVersionBegin(m)

\* _logout returned True to its caller: logout itself ("top"),
\* __validate_connection ("validate"), __is_ucsm inside its try
\* ("ucsm_try") or inside its except ("ucsm_except")
LogoutReturnTrue(m, ctx) ==
    CASE ctx = "top"      -> Finish(m, "True")
      [] ctx = "validate" -> ValidateReturn(m, FALSE)
      [] OTHER            -> IsUcsmReturn(m, FALSE)

\* a _logout without the early return, a faulty variant
LogoutNoCookieNever(s) == FALSE

\* whether _logout returns at once
LogoutNoCookie(s) == IsNone(s.cookie)

\* _logout, up to its post_elem
LogoutBegin(m, ctx) ==
    IF LogoutNoCookie(m.s) THEN LogoutReturnTrue(m, ctx)
    ELSE Call([m EXCEPT !.s = CancelTimer(m.s), !.t.lctx = ctx],
              "logout", "aaaLogout", m.s.cookie)

\* _logout raised exc: the except of __is_ucsm catches what its try
\* raised and calls _logout again; everywhere else exc leaves the method
LogoutRaise(m, ctx, exc) ==
    IF ctx = "ucsm_try" THEN LogoutBegin(m, "ucsm_except")
    ELSE Finish(m, exc)

\* __validate_connection, up to its post_elem
ValidateBegin(m) ==
    IF ~IsNone(m.s.cookie) /\ m.s.cookie # Str("")
    THEN IF ~m.s.force
         THEN Call(m, "probe", "configResolveDn", m.s.cookie)
         ELSE LogoutBegin(m, "validate")
    ELSE ValidateReturn(m, FALSE)

\* _login(auto_refresh, force), up to its first post_elem
LoginBegin(m, auto_refresh, force) ==
    ValidateBegin([m EXCEPT !.s.force = force, !.s.auto_refresh = auto_refresh,
                            !.t.auto_refresh = auto_refresh, !.t.force = force,
                            !.t.vctx = "login"])

\* _refresh(auto_relogin), up to its post_elem
RefreshBegin(m, auto_relogin) ==
    Call([m EXCEPT !.s = StopRefreshTimer(m.s), !.t.auto_relogin = auto_relogin],
         "refresh", "aaaRefresh", m.s.cookie)

\* ------------------------------------------- after post_elem came back
\* post_elem raised (send or decode), or returned None and the caller's
\* response.error_code raised AttributeError
Raised(t) == t.exc # "none" \/ t.resp = "empty"
ExcOf(t) == IF t.exc # "none" THEN t.exc ELSE "AttributeError"

\* a __validate_connection that never trusts the probe, a faulty variant
AfterProbeDistrusts(m) ==
    IF Raised(m.t) THEN Finish(m, ExcOf(m.t))
    ELSE ValidateReturn(m, FALSE)

\* __validate_connection, after its post_elem
AfterProbe(m) ==
    IF Raised(m.t) THEN Finish(m, ExcOf(m.t))
    ELSE ValidateReturn(m, m.t.resp = "ok")

\* a _logout for which "555" is an error like another, a faulty variant
IsSentinelNever(resp) == FALSE

\* whether _logout takes the response's error code for the sentinel "555"
IsSentinel(resp) == resp = "sentinel"

\* _logout, after its post_elem
AfterLogout(m) ==
    IF Raised(m.t) THEN LogoutRaise(m, m.t.lctx, ExcOf(m.t))
    ELSE IF IsSentinel(m.t.resp) THEN LogoutReturnTrue(m, m.t.lctx)
    ELSE IF m.t.resp # "ok" THEN LogoutRaise(m, m.t.lctx, "UcsException")
    ELSE LogoutReturnTrue([m EXCEPT !.s = Clear(m.s)], m.t.lctx)

\* a _login that raises on a failed aaaLogin without __clear(), a faulty
\* variant
AfterLoginKeeps(m) ==
    IF Raised(m.t) THEN Finish(m, ExcOf(m.t))
    ELSE IF m.t.resp # "ok"
         THEN Finish(m, "UcsException")
         ELSE Call([m EXCEPT !.s = Update(m.s, m.t.out_cookie, m.t.out_version)],
                   "ucsm", "configResolveClass", CookieOf(m.t.out_cookie))

\* _login, after the post_elem of aaaLogin, up to the post_elem of __is_ucsm
AfterLogin(m) ==
    IF Raised(m.t) THEN Finish(m, ExcOf(m.t))
    ELSE IF m.t.resp # "ok"
         THEN Finish([m EXCEPT !.s = Clear(m.s)], "UcsException")
         ELSE Call([m EXCEPT !.s = Update(m.s, m.t.out_cookie, m.t.out_version)],
                   "ucsm", "configResolveClass", CookieOf(m.t.out_cookie))

\* __is_ucsm, after its post_elem
AfterIsUcsm(m) ==
    IF Raised(m.t) THEN LogoutBegin(m, "ucsm_except")
    ELSE IF m.t.resp # "ok"
         THEN LogoutBegin(m, "ucsm_try")
         ELSE IsUcsmReturn(m, TRUE)

\* _update_version, after its post_elem
AfterVersion(m) ==
    IF Raised(m.t) THEN Finish(m, ExcOf(m.t))
    ELSE IF m.t.resp # "ok" THEN Finish(m, "UcsException")
    ELSE UpdateDomainBegin([m EXCEPT !.s.version = UcsVersion(OutVersionStr)])

\* _update_domain_name_and_ip, after its post_elem
AfterDomain(m) ==
    IF Raised(m.t) THEN Finish(m, ExcOf(m.t))
    ELSE IF m.t.resp # "ok" THEN Finish(m, "UcsException")
    ELSE LoginEnd([m EXCEPT !.s.ucs = OutName])

\* _refresh, after its post_elem
AfterRefresh(m) ==
    IF Raised(m.t) THEN Finish(m, ExcOf(m.t))
    ELSE IF m.t.resp # "ok"
         THEN IF m.t.auto_relogin
              THEN LoginBegin([m EXCEPT !.s.cookie = PyNone], FALSE, FALSE)
              ELSE Finish([m EXCEPT !.s.cookie = PyNone], "False")
         ELSE Finish([m EXCEPT !.s =
                        StartRefreshTimer(
                          [m.s EXCEPT !.cookie = CookieOf(m.t.out_cookie),
                                      !.refresh_period = PyInt(OutRefreshPeriod),
                                      !.priv = PrivSplit(Str(PrivStr)),
                                      !.domains = OutDomains,
                                      !.last_update_time = Now])],
                     "True")

\* a caller's own request, after post_elem: the response is the result
AfterExchange(m) ==
    IF m.t.exc # "none" THEN Finish(m, m.t.exc)
    ELSE Finish(m, IF m.t.resp = "empty" THEN "None" ELSE "response")

\* the code that runs when post_elem comes back to its call site
AfterPostElem(m) ==
    CASE m.t.site = "probe"   -> AfterProbe(m)
      [] m.t.site = "logout"  -> AfterLogout(m)
      [] m.t.site = "login"   -> AfterLogin(m)
      [] m.t.site = "ucsm"    -> AfterIsUcsm(m)
      [] m.t.site = "version" -> AfterVersion(m)
      [] m.t.site = "domain"  -> AfterDomain(m)
      [] m.t.site = "refresh" -> AfterRefresh(m)
      [] OTHER                -> AfterExchange(m)

\* ------------------------------------------------------ freeze, unfreeze
\* the truth value Python gives a value in `if x:`
Truthy(x) == ~IsNone(x) /\ x # Str("")

\* freeze: the dict of str() values written to the file
FreezeAttrs(s) ==
    [ip |-> PyStr(s.ip), username |-> PyStr(s.username),
     password |-> PyStr(s.password), uri |-> PyStr(s.uri),
     name |-> PyStr(s.name), cookie |-> PyStr(s.cookie),
     session_id |-> PyStr(s.session_id), version |-> PyStr(s.version),
     refresh_period |-> PyStr(s.refresh_period), priv |-> PyStr(s.priv),
     domains |-> PyStr(s.domains), channel |-> PyStr(s.channel),
     evt_channel |-> PyStr(s.evt_channel),
     last_update_time |-> PyStr(s.last_update_time),
     force |-> BoolStr(s.force), auto_refresh |-> BoolStr(s.auto_refresh),
     dump_xml |-> BoolStr(s.dump_xml), redirect |-> BoolStr(s.redirect),
     hasProxy |-> Truthy(s.proxy), proxy |-> PyStr(s.proxy)]

\* unfreeze: the handle built from the file's attributes
Restore(a) ==
    [NewSession(a.ip, a.username, a.password,
                IF a.hasProxy THEN a.proxy ELSE PyNone)
       EXCEPT !.uri = a.uri, !.name = a.name, !.cookie = a.cookie,
              !.session_id = a.session_id, !.version = a.version,
              !.refresh_period = a.refresh_period, !.priv = a.priv,
              !.domains = a.domains, !.channel = a.channel,
              !.evt_channel = a.evt_channel,
              !.last_update_time = a.last_update_time,
              !.force = StrToBool(a.force),
              !.auto_refresh = StrToBool(a.auto_refresh),
              !.dump_xml = StrToBool(a.dump_xml),
              !.redirect = StrToBool(a.redirect)]

\* unfreeze(validate), from the restored handle up to its first post_elem
UnfreezeBegin(m, validate) ==
    LET m1 == [m EXCEPT !.t.validate = validate,
                        !.t.auto_refresh = m.s.auto_refresh,
                        !.t.force = m.s.force]
    IN  IF validate THEN LoginBegin(m1, m.s.auto_refresh, m.s.force)
        ELSE ValidateBegin([m1 EXCEPT !.t.vctx = "unfreeze"])

FileAbsent == [present |-> FALSE, attrs |-> FreezeAttrs(NoSession),
               orig |-> NoSession]

\* --------------------------------------------------------------- server
\* the requests that carry the session cookie
CarriesCookie(tag) == tag # "aaaLogin"
IssuesCookie(tag) == tag \in {"aaaLogin", "aaaRefresh"}

\* the server accepts the cookie a request carries
Accepts(elem) ==
    /\ elem.cookie = CookieOf(elem.cookie.n)
    /\ elem.cookie.n \in srv.valid

\* what post_elem can meet on the wire: error code 0, another error code,
\* the code "555" (to a logout), an empty response, send raising, and a
\* response from_xml_str cannot decode
Outcomes(tag) ==
    {"ok", "err", "empty", "send_raise", "decode_raise"}
        \cup (IF tag = "aaaLogout" THEN {"sentinel"} ELSE {})

SrvAfter(elem, o) ==
    IF o # "ok" THEN srv
    ELSE CASE elem.tag = "aaaLogin" ->
                [issued |-> srv.issued + 1,
                 valid |-> srv.valid \cup {srv.issued + 1}]
           [] elem.tag = "aaaRefresh" ->
                [issued |-> srv.issued + 1,
                 valid |-> (srv.valid \ {elem.cookie.n}) \cup {srv.issued + 1}]
           [] elem.tag = "aaaLogout" ->
                [srv EXCEPT !.valid = @ \ {elem.cookie.n}]
           [] OTHER -> srv

\* the answer of a server and a transport without faults: error code 0,
\* or a non-zero error code for a cookie the server does not hold
Healthy(elem, o) ==
    o = IF CarriesCookie(elem.tag) /\ ~Accepts(elem) THEN "err" ELSE "ok"

\* ------------------------------------------------------------- post_elem
\* a post_elem that does not wait for tx_lock, a faulty variant
CanAcquireUnlocked == TRUE

\* tx_lock.acquire() goes through
CanAcquire == ~tx_lock

\* post_elem, from the stale-cookie check to the request on the wire
PostElemSend(s, elem) ==
    IF IsStaleCookie(s, elem) THEN [elem EXCEPT !.cookie = s.cookie] ELSE elem

\* post_xml: the session follows the redirect the driver reports
PostXml(s, redir) == IF redir THEN [s EXCEPT !.uri = UriRedirect] ELSE s

\* post_elem, from the decoded response to the release of the lock:
\* the cookie of a refresh is taken inside the lock
PostElemDecoded(s, elem, o, c) ==
    IF elem.tag = "aaaRefresh"
    THEN [UpdateCookie(s, IF o = "ok" THEN "0" ELSE o, c)
            EXCEPT !.superseded =
                     IF o = "ok" /\ elem.cookie.ty = "str"
                     THEN @ \cup {elem.cookie.n} ELSE @]
    ELSE s

\* a post_elem that releases tx_lock only after a decoded response, a
\* faulty variant
ReleasesLockDecoded(o) == o \in {"ok", "err", "sentinel"}

\* the exits of post_elem that reach a tx_lock.release()
ReleasesLock(o) == o \notin {"send_raise", "decode_raise"}

\* -------------------------------------------------------------- actions
Idle(t) == t \in env.threads /\ th[t].ctl \in {"idle", "done"}

\* an operation starts on a thread that runs nothing; which one does not
\* matter, so it is the first
Free(t) == Idle(t) /\ \A u \in Threads : u < t => ~Idle(u)

\* thread t starts operation op on session object s
Start(t, op, s) ==
    [IdleThread EXCEPT !.op = op, !.self = s, !.ctl = "run"]

Machine(t, op, s) == [s |-> sess[s], t |-> Start(t, op, s)]

\* the constructed sessions are alike: the one used first is numbered 1
FirstUse(s) == s = 1 \/ ops > 0

CallerStarts ==
    /\ ops < env.maxops
    /\ ops' = ops + 1

Apply(t, s, m) ==
    /\ sess' = [sess EXCEPT ![s] = m.s]
    /\ th' = [th EXCEPT ![t] = m.t]

\* handle.login(auto_refresh, force)
Login(t, s, auto_refresh, force) ==
    /\ Free(t) /\ sess[s].alive /\ CallerStarts /\ FirstUse(s)
    /\ Apply(t, s, LoginBegin(Machine(t, "login", s), auto_refresh, force))
    /\ UNCHANGED <<tx_lock, file, srv, env>>

\* handle.logout()
Logout(t, s) ==
    /\ Free(t) /\ sess[s].alive /\ CallerStarts /\ FirstUse(s)
    /\ Apply(t, s, LogoutBegin(Machine(t, "logout", s), "top"))
    /\ UNCHANGED <<tx_lock, file, srv, env>>

\* handle._refresh(auto_relogin)
Refresh(t, s, auto_relogin) ==
    /\ Free(t) /\ sess[s].alive /\ CallerStarts /\ FirstUse(s)
    /\ Apply(t, s, RefreshBegin(Machine(t, "refresh", s), auto_relogin))
    /\ UNCHANGED <<tx_lock, file, srv, env>>

\* a caller posts a request element it built with the session's cookie
Exchange(t, s) ==
    /\ Free(t) /\ sess[s].alive /\ CallerStarts /\ FirstUse(s)
    /\ Apply(t, s, Call(Machine(t, "exchange", s), "exchange",
                        "configResolveDn", sess[s].cookie))
    /\ UNCHANGED <<tx_lock, file, srv, env>>

\* a pending Timer of session s fires and runs self._refresh() on its own
\* thread: the Timer the session refers to (referenced), or one it no
\* longer refers to
TimerFire(t, s, referenced) ==
    /\ Free(t) /\ sess[s].alive
    /\ IF referenced THEN sess[s].refresh_timer = "armed"
       ELSE sess[s].pending > (IF sess[s].refresh_timer = "armed" THEN 1 ELSE 0)
    /\ LET fired == IF referenced THEN CancelTimer(sess[s])
                    ELSE [sess[s] EXCEPT !.pending = @ - 1]
       IN  Apply(t, s, RefreshBegin([s |-> fired, t |-> Start(t, "timer", s)],
                                    FALSE))
    /\ UNCHANGED <<tx_lock, file, srv, ops, env>>

\* handle.freeze()
Freeze(t, s) ==
    /\ Free(t) /\ sess[s].alive /\ CallerStarts /\ FirstUse(s)
    /\ file' = [present |-> TRUE, attrs |-> FreezeAttrs(sess[s]),
                orig |-> sess[s]]
    /\ th' = [th EXCEPT ![t] = [Start(t, "freeze", s) EXCEPT !.ctl = "done",
                                                            !.ret = "None"]]
    /\ UNCHANGED <<sess, tx_lock, srv, env>>

\* UcsSession.unfreeze(validate): a new session object h
Unfreeze(t, h, validate) ==
    /\ Free(t) /\ CallerStarts
    /\ file.present
    /\ ~sess[h].alive /\ \A k \in Sessions : k < h => sess[k].alive
    /\ LET born == Restore(file.attrs)
           me == [IdleThread EXCEPT !.op = "unfreeze", !.self = h, !.ctl = "run"]
       IN  Apply(t, h, UnfreezeBegin([s |-> born, t |-> me], validate))
    /\ UNCHANGED <<tx_lock, file, srv, env>>

\* post_elem: the thread gets tx_lock, corrects a stale cookie, and sends
Acquire(t) ==
    /\ t \in env.threads /\ th[t].ctl = "call"
    /\ CanAcquire
    /\ tx_lock' = TRUE
    /\ th' = [th EXCEPT ![t].ctl = "wire",
                        ![t].elem = PostElemSend(sess[th[t].self], @),
                        ![t].sentLogin = @ \/ th[t].elem.tag = "aaaLogin"]
    /\ sess' = [sess EXCEPT ![th[t].self].nlogin =
                               IF th[t].elem.tag = "aaaLogin" THEN @ + 1 ELSE @]
    /\ UNCHANGED <<file, srv, ops, env>>

\* post_elem: the exchange ends with outcome o; hasVersion tells whether a
\* login response carries outVersion, redir whether the driver reports a
\* redirect URI
Respond(t, o, hasVersion, redir) ==
    LET me == th[t]
        s == me.self
        c == srv.issued + 1
    IN  /\ t \in env.threads /\ me.ctl = "wire"
        /\ o \in Outcomes(me.elem.tag)
        /\ o = "ok" /\ CarriesCookie(me.elem.tag) => Accepts(me.elem)
        /\ o = "ok" /\ IssuesCookie(me.elem.tag) => srv.issued < MaxCookie
        /\ ~hasVersion => env.bareLogin /\ o = "ok" /\ me.elem.tag = "aaaLogin"
        /\ redir => env.redirects /\ o # "send_raise"
        /\ ~env.faults => Healthy(me.elem, o)
        /\ srv' = SrvAfter(me.elem, o)
        /\ tx_lock' = ~ReleasesLock(o)
        /\ sess' = [sess EXCEPT ![s] =
                      IF o \in {"ok", "err", "sentinel"}
                      THEN PostElemDecoded(PostXml(@, redir), me.elem, o, c)
                      ELSE PostXml(@, redir)]
        /\ th' = [th EXCEPT
                    ![t].ctl = "back",
                    ![t].resp = IF ReleasesLock(o) THEN o ELSE "none",
                    ![t].exc = CASE o = "send_raise" -> "TransportError"
                                 [] o = "decode_raise" -> "DecodeError"
                                 [] OTHER -> "none",
                    ![t].out_cookie = IF o = "ok" /\ IssuesCookie(me.elem.tag)
                                      THEN c ELSE 0,
                    ![t].out_version = IF me.elem.tag = "aaaLogin"
                                       THEN hasVersion ELSE @]
        /\ UNCHANGED <<file, ops, env>>

\* the caller's code runs from the return (or raise) of post_elem to its
\* next post_elem, or to the end of the operation
Continue(t) ==
    /\ t \in env.threads /\ th[t].ctl = "back"
    /\ Apply(t, th[t].self,
             AfterPostElem([s |-> sess[th[t].self], t |-> th[t]]))
    /\ UNCHANGED <<tx_lock, file, srv, ops, env>>

\* ------------------------------------------------------- specifications
InitCommon ==
    /\ sess = [s \in Sessions |->
                 IF s <= env.made
                 THEN NewSession(Ip, Username, Password, PyNone)
                 ELSE NoSession]
    /\ th = [t \in Threads |-> IdleThread]
    /\ tx_lock = FALSE
    /\ file = FileAbsent
    /\ srv = [issued |-> 0, valid |-> {}]
    /\ ops = 0

\* two constructed sessions; callers and Timer threads run concurrently
Init ==
    /\ env = [threads |-> Threads, maxops |-> MaxOps, made |-> 2,
              redirects |-> FALSE, bareLogin |-> FALSE,
              faults |-> TRUE, period |-> ServerPeriod]
    /\ InitCommon

\* one caller, whose calls follow one another; a Timer runs between them
InitSeq ==
    /\ env = [threads |-> {1}, maxops |-> MaxSeqOps, made |-> 1,
              redirects |-> FALSE, bareLogin |-> TRUE,
              faults |-> TRUE, period |-> ServerPeriod]
    /\ InitCommon

Next ==
    \/ \E t \in Threads, s \in Sessions, a, f \in BOOLEAN : Login(t, s, a, f)
    \/ \E t \in Threads, s \in Sessions : Logout(t, s)
    \/ \E t \in Threads, s \in Sessions, r \in BOOLEAN : Refresh(t, s, r)
    \/ \E t \in Threads, s \in Sessions : Exchange(t, s)
    \/ \E t \in Threads, s \in Sessions, r \in BOOLEAN : TimerFire(t, s, r)
    \/ \E t \in Threads, s \in Sessions : Freeze(t, s)
    \/ \E t \in Threads, h \in Sessions, v \in BOOLEAN : Unfreeze(t, h, v)
    \/ \E t \in Threads : Acquire(t)
    \/ \E t \in Threads, o \in Outcomes("aaaLogout"), v, r \in BOOLEAN :
          Respond(t, o, v, r)
    \/ \E t \in Threads : Continue(t)

Spec == Init /\ [][Next]_vars
SpecSeq == InitSeq /\ [][Next]_vars

\* one caller against a server without faults that reports any refresh
\* period: login, freeze, unfreeze, and the Timer's refreshes
InitTimer ==
    /\ \E p \in (1..MaxPeriod) \cup {LongPeriod} :
          env = [threads |-> {1}, maxops |-> MaxSeqOps, made |-> 1,
                 redirects |-> FALSE, bareLogin |-> FALSE,
                 faults |-> FALSE, period |-> p]
    /\ InitCommon

NextTimer ==
    \/ \E t \in Threads, s \in Sessions, a, f \in BOOLEAN : Login(t, s, a, f)
    \/ \E t \in Threads, s \in Sessions, r \in BOOLEAN : TimerFire(t, s, r)
    \/ \E t \in Threads, s \in Sessions : Freeze(t, s)
    \/ \E t \in Threads, h \in Sessions, v \in BOOLEAN : Unfreeze(t, h, v)
    \/ \E t \in Threads : Acquire(t)
    \/ \E t \in Threads, o \in Outcomes("aaaLogout"), v, r \in BOOLEAN :
          Respond(t, o, v, r)
    \/ \E t \in Threads : Continue(t)

SpecTimer == InitTimer /\ [][NextTimer]_vars

\* one caller; the driver may report a redirect URI on any response
InitRedirect ==
    /\ env = [threads |-> {1}, maxops |-> MaxSeqOps, made |-> 1,
              redirects |-> TRUE, bareLogin |-> FALSE,
              faults |-> TRUE, period |-> ServerPeriod]
    /\ InitCommon

SpecRedirect == InitRedirect /\ [][Next]_vars

TypeOK ==
    /\ tx_lock \in BOOLEAN
    /\ ops \in 0..env.maxops
    /\ srv.issued \in 0..MaxCookie
    /\ \A t \in Threads : th[t].ctl \in {"idle", "call", "wire", "back", "done"}
    /\ \A s \in Sessions : sess[s].pending >= 0

\* ---------------------------------------------------------------- claims
Done(t) == th[t].ctl = "done"
Self(t) == sess[th[t].self]

\* every metadata field of the session is None
AllNull(s) ==
    /\ IsNone(s.cookie) /\ IsNone(s.session_id) /\ IsNone(s.version)
    /\ IsNone(s.refresh_period) /\ IsNone(s.priv) /\ IsNone(s.domains)
    /\ IsNone(s.channel) /\ IsNone(s.evt_channel) /\ IsNone(s.name)

\* C1: at most one exchange is on the wire at a time, whatever the threads
\* and the session objects they work on
C1_OneExchangeInFlight ==
    Cardinality({t \in Threads : th[t].ctl = "wire"}) <= 1

\* an exchange of one session is on the wire while a thread waits for
\* tx_lock with a request of another session
C1_Witness ==
    \E t, u \in Threads :
        /\ th[t].ctl = "wire" /\ th[u].ctl = "call"
        /\ th[t].self # th[u].self

\* C2: once a refresh has replaced a cookie of the session, no request of
\* that session that carries a cookie goes out with the replaced one
C2_NeverTheOldCookie ==
    \A t \in Threads :
        (th[t].ctl = "wire" /\ th[t].elem.cookie.ty = "str"
                            /\ th[t].elem.cookie # Str(""))
            => th[t].elem.cookie.n \notin Self(t).superseded

\* C3: whenever no thread is inside post_elem, tx_lock is free
C3_LockFreeOutsidePostElem ==
    (\A t \in Threads : th[t].ctl \notin {"call", "wire"}) => ~tx_lock

\* C4: a login(force=false) on a session whose cookie the validate probe
\* finds accepted returns True right after the probe, sends no aaaLogin
\* and leaves the cookie as it was
C4_SecondLoginReuses ==
    [][\A t \in Threads :
          (/\ th[t].op = "login" /\ th[t].ctl = "back"
           /\ th[t].site = "probe" /\ th[t].resp = "ok"
           /\ th'[t] # th[t])
          => (/\ th'[t].ctl = "done" /\ th'[t].ret = "True"
              /\ ~th'[t].sentLogin
              /\ sess'[th[t].self].nlogin = sess[th[t].self].nlogin
              /\ sess'[th[t].self].cookie = th[t].elem.cookie
              /\ tx_lock' = tx_lock)]_vars

\* the second login has returned True without an aaaLogin of its own; the
\* session has sent one aaaLogin in all, and holds the cookie it gave
C4_Witness ==
    /\ Done(1) /\ th[1].op = "login" /\ ~th[1].force
    /\ th[1].ret = "True" /\ ~th[1].sentLogin
    /\ th[1].site = "probe" /\ th[1].resp = "ok"
    /\ sess[1].nlogin = 1 /\ sess[1].cookie = CookieOf(1)

\* C5: a login(force=true) sends an aaaLogin, whatever error code answers
\* the logout that force triggers on the cookie the server accepts
C5_ForceAlwaysLogsIn ==
    \A t \in Threads :
        (/\ Done(t) /\ th[t].op = "login" /\ th[t].force
         /\ (th[t].site = "logout" /\ th[t].lctx = "validate")
               => (th[t].resp \in {"ok", "sentinel", "err"}
                   /\ Accepts(th[t].elem)))
        => th[t].sentLogin

\* C6: logout() on a session without a cookie returns True at once: no
\* request, no acquire of tx_lock, no field of the session changed
C6_LogoutWithoutCookie ==
    [][\A t \in Threads, s \in Sessions :
          (/\ Free(t) /\ ops' = ops + 1
           /\ th'[t].op = "logout" /\ th'[t].self = s
           /\ IsNone(sess[s].cookie))
          => (/\ th'[t].ctl = "done" /\ th'[t].ret = "True"
              /\ th'[t].site = "none"
              /\ sess' = sess /\ tx_lock' = tx_lock /\ srv' = srv)]_vars

C6_Witness ==
    \E t \in Threads :
        /\ Done(t) /\ th[t].op = "logout" /\ th[t].ret = "True"
        /\ th[t].site = "none" /\ IsNone(Self(t).cookie)

\* C7: logout() returns True when its exchange is answered with the code
\* "555", and raises when it is answered with another non-zero code
C7_SentinelIsSuccess ==
    \A t \in Threads :
        (Done(t) /\ th[t].op = "logout" /\ th[t].site = "logout")
        => /\ th[t].resp = "sentinel" => th[t].ret = "True"
           /\ th[t].resp = "err" => th[t].ret = "UcsException"

C7_Witness ==
    \E t \in Threads :
        /\ Done(t) /\ th[t].op = "logout" /\ th[t].site = "logout"
        /\ th[t].resp = "sentinel" /\ th[t].ret = "True"

\* C8: after logout() returned True on a session that held a cookie, the
\* cookie and every metadata field are None
C8_LogoutClears ==
    \A t \in Threads :
        (/\ Done(t) /\ th[t].op = "logout" /\ th[t].site = "logout"
         /\ th[t].ret = "True")
        => AllNull(Self(t))

\* C9: a login whose identity check failed raises UcsLoginError and leaves
\* the session without a cookie, whatever answers the logout it issues
C9_IdentityCheckFailure ==
    \A t \in Threads :
        (/\ Done(t) /\ th[t].op = "login" /\ th[t].site = "logout"
         /\ th[t].lctx \in {"ucsm_try", "ucsm_except"}
         /\ th[t].resp \in {"ok", "sentinel", "err"})
        => (th[t].ret = "UcsLoginError" /\ IsNone(Self(t).cookie))

\* the text of the cookie and of every metadata field is the same
SameSession(a, b) ==
    /\ PyStr(a.cookie) = PyStr(b.cookie)
    /\ PyStr(a.session_id) = PyStr(b.session_id)
    /\ PyStr(a.version) = PyStr(b.version)
    /\ PyStr(a.refresh_period) = PyStr(b.refresh_period)
    /\ PyStr(a.priv) = PyStr(b.priv)
    /\ PyStr(a.domains) = PyStr(b.domains)
    /\ PyStr(a.channel) = PyStr(b.channel)
    /\ PyStr(a.evt_channel) = PyStr(b.evt_channel)
    /\ PyStr(a.name) = PyStr(b.name)

\* C10: unfreeze(validate=false) of a frozen Active session whose cookie
\* the server accepts returns a session with that cookie and metadata, and
\* sends no aaaLogin, whatever its force and auto_refresh flags
C10_FreezeUnfreeze ==
    \A t \in Threads :
        (/\ Done(t) /\ th[t].op = "unfreeze" /\ ~th[t].validate
         /\ ~IsNone(file.orig.cookie)
         /\ th[t].site \in {"probe", "logout"} /\ th[t].resp = "ok")
        => (/\ th[t].ret = "handle"
            /\ SameSession(Self(t), file.orig)
            /\ ~th[t].sentLogin)

\* C11: unfreeze(validate=false) whose probe of the restored cookie is
\* answered with a non-zero error code raises ValueError("UcsHandle is
\* expired"), arms no refresh timer and sends no aaaLogin
C11_UnfreezeExpired ==
    [][\A t \in Threads :
          (/\ th[t].op = "unfreeze" /\ ~th[t].validate
           /\ th[t].ctl = "back" /\ th[t].site = "probe"
           /\ th[t].resp = "err" /\ th'[t] # th[t])
          => (/\ th'[t].ctl = "done" /\ th'[t].ret = "ValueError"
              /\ ~th'[t].sentLogin
              /\ sess'[th[t].self].nlogin = sess[th[t].self].nlogin
              /\ sess'[th[t].self].refresh_timer = "None"
              /\ sess'[th[t].self].pending = 0)]_vars

\* the unfreeze of a session frozen with auto_refresh set has raised
C11_Witness ==
    \E t \in Threads :
        /\ Done(t) /\ th[t].op = "unfreeze" /\ ~th[t].validate
        /\ th[t].site = "probe" /\ th[t].resp = "err"
        /\ th[t].ret = "ValueError" /\ Self(t).auto_refresh
        /\ Self(t).pending = 0

\* the delay the scheduler is to arm for a refresh period of p seconds
Delay(p) == IF p > 60 THEN p - 60 ELSE 60

\* C12: the Timer a session refers to is armed with the delay of the
\* refresh period the server reported: period - 60 above 60, else 60
C12_ArmedDelay ==
    \A s \in Sessions :
        sess[s].refresh_timer = "armed" => sess[s].interval = Delay(env.period)

\* C13: whenever a Timer is armed for a session whose refresh period is
\* an integer, its delay is not below the floor of 60 seconds
C13_DelayAtLeastFloor ==
    \A s \in Sessions :
        (sess[s].refresh_timer = "armed" /\ sess[s].refresh_period.ty = "int")
            => sess[s].interval >= 60

\* no thread is inside a method of a session
Quiet == \A t \in Threads : th[t].ctl \in {"idle", "done"}

\* C14: between operations, a constructed session (not one restored by
\* unfreeze) whose cookie is None has None in session_id, version,
\* refresh_period, priv, domains, channel and evt_channel
C14_NullTogether ==
    Quiet =>
        \A s \in 1..env.made :
            (sess[s].alive /\ IsNone(sess[s].cookie))
            => (/\ IsNone(sess[s].session_id) /\ IsNone(sess[s].version)
                /\ IsNone(sess[s].refresh_period) /\ IsNone(sess[s].priv)
                /\ IsNone(sess[s].domains) /\ IsNone(sess[s].channel)
                /\ IsNone(sess[s].evt_channel))

\* C15: a login that raised on its aaaLogin, its identity check, its
\* version lookup or its root-system lookup leaves the session without
\* a cookie
C15_LoginAtomic ==
    \A t \in Threads :
        (/\ Done(t) /\ th[t].op = "login"
         /\ th[t].ret \in {"UcsException", "UcsLoginError"}
         /\ \/ th[t].site \in {"login", "version", "domain"}
            \/ th[t].site = "logout" /\ th[t].lctx \in {"ucsm_try", "ucsm_except"})
        => IsNone(Self(t).cookie)

\* C16: between operations, a session whose cookie is None has no
\* refresh Timer pending
C16_NoTimerWhenLoggedOut ==
    Quiet =>
        \A s \in Sessions :
            (sess[s].alive /\ IsNone(sess[s].cookie)) => sess[s].pending = 0

\* C17: a session never has more than one refresh Timer pending
C17_OneTimer ==
    \A s \in Sessions : sess[s].pending <= 1

\* C18: a refresh run by the Timer whose aaaRefresh is answered with a
\* non-zero error code goes on to send an aaaLogin
C18_TimerRelogs ==
    \A t \in Threads :
        (/\ Done(t) /\ th[t].op = "timer"
         /\ th[t].site = "refresh" /\ th[t].resp = "err")
        => th[t].sentLogin

\* an unfreeze(validate=true) has returned the handle
ValidatedHandle(t) ==
    /\ Done(t) /\ th[t].op = "unfreeze" /\ th[t].validate
    /\ th[t].ret = "handle"

C20_FailedLoginClears ==
    [][\A t \in Threads :
          (/\ th[t].ctl = "back" /\ th[t].site = "login"
           /\ th[t].resp = "err" /\ th'[t] # th[t])
          => (/\ th'[t].ctl = "done" /\ th'[t].ret = "UcsException"
              /\ AllNull(sess'[th[t].self])
              /\ srv' = srv /\ tx_lock' = tx_lock)]_vars

\* the second login of a session that was logged in has failed: the
\* session is cleared
C20_Witness ==
    /\ Done(1) /\ th[1].op = "login" /\ th[1].self = 1
    /\ th[1].site = "login" /\ th[1].resp = "err"
    /\ th[1].ret = "UcsException"
    /\ sess[1].nlogin = 2 /\ srv.issued = 1 /\ ~sess[2].alive
    /\ AllNull(sess[1])

\* C21: a caller's _refresh whose aaaRefresh is answered with a non-zero
\* error code: without auto_relogin it returns False with the cookie
\* None, no aaaLogin sent and no Timer pending; with auto_relogin it
\* goes on, the cookie None, to the aaaLogin of _login
C21_FailedRefresh ==
    [][\A t \in Threads :
          (/\ th[t].op = "refresh" /\ th[t].ctl = "back"
           /\ th[t].site = "refresh" /\ th[t].resp = "err"
           /\ th'[t] # th[t])
          => /\ IsNone(sess'[th[t].self].cookie)
             /\ IF th[t].auto_relogin
                THEN /\ th'[t].ctl = "call"
                     /\ th'[t].elem.tag = "aaaLogin"
                ELSE /\ th'[t].ctl = "done" /\ th'[t].ret = "False"
                     /\ ~th'[t].sentLogin
                     /\ sess'[th[t].self].pending = 0]_vars

\* C22: a _refresh whose aaaRefresh is answered with error code 0 returns
\* True with the cookie and the refresh period of the response in the
\* session and exactly one refresh Timer of the session pending
C22_RefreshRearms ==
    [][\A t \in Threads :
          (/\ th[t].op \in {"refresh", "timer"} /\ th[t].ctl = "back"
           /\ th[t].site = "refresh" /\ th[t].resp = "ok"
           /\ th'[t] # th[t])
          => (/\ th'[t].ctl = "done" /\ th'[t].ret = "True"
              /\ sess'[th[t].self].cookie = CookieOf(th[t].out_cookie)
              /\ sess'[th[t].self].refresh_period = PyInt(OutRefreshPeriod)
              /\ sess'[th[t].self].refresh_timer = "armed"
              /\ sess'[th[t].self].pending = 1)]_vars

\* C23: no step writes the cookie of a session while another thread is
\* inside post_elem, between acquire and release, with a request of
\* that session for which it has read the cookie
C23_NoWriteDuringExchange ==
    [][\A s \in Sessions :
          sess'[s].cookie # sess[s].cookie
          => ~ \E u \in Threads :
                 /\ th[u].ctl = "wire" /\ th[u].self = s
                 /\ th[u].elem.cookie.ty # "absent"
                 /\ th'[u] = th[u]]_vars

\* C24: when the transport hands post_elem an empty response (no
\* exception, nothing decoded), post_elem returns None with tx_lock
\* released and the cookie as it was; an outside caller gets None
C24_EmptyResponse ==
    [][\A t \in Threads :
          /\ (/\ th[t].ctl = "wire" /\ th'[t].ctl = "back"
               /\ th'[t].exc = "none"
               /\ th'[t].resp \notin {"ok", "err", "sentinel"})
              => (/\ th'[t].resp = "empty"
                  /\ ~tx_lock'
                  /\ sess'[th[t].self].cookie = sess[th[t].self].cookie)
          /\ (/\ th[t].op = "exchange" /\ th[t].ctl = "back"
               /\ th[t].resp = "empty" /\ th'[t] # th[t])
              => (th'[t].ctl = "done" /\ th'[t].ret = "None")]_vars

\* the aaaRefresh of a logged-in session got an empty response: the lock
\* is free and the session holds the cookie the request carried
C24_Witness ==
    \E t \in Threads :
        /\ th[t].ctl = "back" /\ th[t].site = "refresh"
        /\ th[t].resp = "empty" /\ ~tx_lock
        /\ Self(t).cookie = th[t].elem.cookie
        /\ Self(t).cookie.ty = "str" /\ Self(t).cookie.n \in srv.valid

\* C25: no step changes the ip, username, password or proxy of a session;
\* the uri changes only in the step in which a request of the session
\* comes back from the wire, and then to the redirect URI of the driver
C25_IdentityFrame ==
    [][\A s \in Sessions :
          sess[s].alive
          => /\ sess'[s].ip = sess[s].ip
             /\ sess'[s].username = sess[s].username
             /\ sess'[s].password = sess[s].password
             /\ sess'[s].proxy = sess[s].proxy
             /\ sess'[s].uri # sess[s].uri
                  => /\ sess'[s].uri = UriRedirect
                     /\ \E t \in Threads :
                           /\ th[t].self = s /\ th[t].ctl = "wire"
                           /\ th'[t].ctl = "back"]_vars

\* a redirected session has been logged in and cleared by its logout
C25_Witness ==
    \E s \in Sessions :
        /\ sess[s].alive /\ sess[s].uri = UriRedirect
        /\ sess[s].ip = Ip /\ sess[s].username = Username
        /\ sess[s].password = Password /\ sess[s].proxy = PyNone
        /\ sess[s].nlogin > 0 /\ IsNone(sess[s].cookie)

\* C26: between operations, a session with a refresh Timer pending has its
\* auto_refresh flag true
C26_TimerOnlyWithFlag ==
    Quiet =>
        \A s \in Sessions :
            (sess[s].alive /\ sess[s].pending > 0) => sess[s].auto_refresh

\* C27: no thread blocks forever acquiring tx_lock: whenever a thread
\* waits in tx_lock.acquire() and the lock is held, some thread is inside
\* post_elem on the wire and will release it
C27_NoThreadStuckOnLock ==
    \A t \in Threads :
        (th[t].ctl = "call" /\ tx_lock)
        => \E u \in Threads : th[u].ctl = "wire"

\* C28: a refresh that ran concurrently with a login of the same session
\* never writes an earlier cookie over a later one: the server numbers the
\* cookies in the order of the exchanges that produce them, and when the
\* login has sent its aaaLogin and returned True, the step in which
\* _refresh stores the cookie of its answered aaaRefresh does not replace
\* the cookie of the session by one of a lower number
C28_NoOlderCookieWrittenBack ==
    [][\A t, u \in Threads :
          (/\ th[t].op \in {"refresh", "timer"} /\ th[t].ctl = "back"
           /\ th[t].site = "refresh" /\ th[t].resp = "ok"
           /\ th'[t] # th[t]
           /\ th[u].op = "login" /\ th[u].self = th[t].self
           /\ th[u].ctl = "done" /\ th[u].ret = "True" /\ th[u].sentLogin
           /\ Self(t).cookie.ty = "str")
          => /\ sess'[th[t].self].cookie.ty = "str"
             /\ sess'[th[t].self].cookie.n >= Self(t).cookie.n]_vars

\* C29: when _refresh(auto_relogin=True) had its aaaRefresh refused and
\* the login it falls back to returns True, the session holds a cookie,
\* its auto_refresh and force flags are false and no refresh Timer is
\* pending
C29_FallbackLogin ==
    [][\A t \in Threads :
          (/\ th[t].op = "refresh" /\ th[t].auto_relogin /\ th[t].sentLogin
           /\ th[t].ctl = "back"
           /\ th'[t].ctl = "done" /\ th'[t].ret = "True")
          => /\ sess'[th[t].self].cookie.ty = "str"
             /\ ~sess'[th[t].self].auto_refresh
             /\ ~sess'[th[t].self].force
             /\ sess'[th[t].self].refresh_timer = "None"
             /\ sess'[th[t].self].pending = 0]_vars
====
